---- MODULE Spec2Model ----
(***************************************************************************)
(* Model of backend_logic/dq_engine.py: the seven data-quality metric      *)
(* functions, the explanation and recommendation resolvers, and the        *)
(* analyze_dataset pipeline.                                               *)
(*                                                                         *)
(* Numbers.  A score is a float rounded to 2 decimals; it is modelled as   *)
(* the record [nan, v] where v counts hundredths (100.0 is v = 10000) and  *)
(* nan marks the float NaN.  An instant is a count of hours.               *)
(* Outcomes.  A call either returns a value or raises a Python exception:  *)
(* [kind |-> "return", value |-> ...] or [kind |-> "raise", error |-> ...]. *)
(***************************************************************************)
EXTENDS Integers, Sequences, FiniteSets

VARIABLES txn_df, cust_df, merch_df, arg_dimension, arg_score, scores, ret, reports

vars == <<txn_df, cust_df, merch_df, arg_dimension, arg_score, scores, ret, reports>>

----------------------------------------------------------------------------
(* Bounds of the model.                                                    *)

\* rows of the transaction table in the pipeline specification
MaxRows == 2
\* rows of the transaction table in the integrity specification
MaxRefRows == 3
\* largest row count whose score fractions k/n seed the report specification
MaxScoreDen == 2
\* successive analyze_dataset calls that are recorded
MaxCalls == 2

----------------------------------------------------------------------------
(* Values.                                                                 *)

Num(x) == [nan |-> FALSE, v |-> x]
NaN == [nan |-> TRUE, v |-> 0]

Return(x) == [kind |-> "return", value |-> x]
Raise(e) == [kind |-> "raise", error |-> e]

\* a missing cell of an object column
NULL == "<null>"

\* cells of the two time columns: raw text that parses to the instant t,
\* raw text that does not parse, a missing cell, and (after pd.to_datetime)
\* a typed instant or NaT
Text(t) == [form |-> "text", t |-> t]
Garbled == [form |-> "garbled", t |-> 0]
NullCell == [form |-> "null", t |-> 0]
Instant(t) == [form |-> "instant", t |-> t]
NaT == [form |-> "NaT", t |-> 0]

\* round(x, 2) of the exact quotient num/den of hundredths: the nearest
\* integer, a tie going to the even neighbour
round2(num, den) ==
    LET q == num \div den
        r == num % den
    IN  IF 2 * r < den THEN q
        ELSE IF 2 * r > den THEN q + 1
        ELSE IF q % 2 = 0 THEN q ELSE q + 1

\* round(100 * (1 - invalid / total), 2); a zero total divides 0 by 0 in
\* numpy arithmetic, which yields NaN and no exception
fraction_score(invalid, total) ==
    IF total = 0 THEN NaN
    ELSE Num(round2(100 * 100 * (total - invalid), total))

Rows(df) == 1..Len(df)

\* Series.isnull() of one cell, by column type
isnull_obj(c) == c = NULL
isnull_num(c) == c.nan
isnull_time(c) == c.form \in {"null", "NaT"}

----------------------------------------------------------------------------
(* Metric functions.                                                       *)

missing_cells_row(r) ==
      (IF isnull_obj(r.transaction_id) THEN 1 ELSE 0)
    + (IF isnull_obj(r.customer_id) THEN 1 ELSE 0)
    + (IF isnull_obj(r.merchant_id) THEN 1 ELSE 0)
    + (IF isnull_obj(r.currency_code) THEN 1 ELSE 0)
    + (IF isnull_num(r.transaction_amount) THEN 1 ELSE 0)
    + (IF isnull_time(r.transaction_timestamp) THEN 1 ELSE 0)
    + (IF isnull_time(r.settlement_date) THEN 1 ELSE 0)

RECURSIVE missing_cells(_)
missing_cells(df) ==
    IF df = <<>> THEN 0
    ELSE missing_cells_row(Head(df)) + missing_cells(Tail(df))

\* the columns of the transaction table (df.shape[1])
Columns ==
    {"transaction_id", "customer_id", "merchant_id", "currency_code",
     "transaction_amount", "transaction_timestamp", "settlement_date"}

completeness_score(df) ==
    LET total_cells == Len(df) * Cardinality(Columns)
    IN  Return(fraction_score(missing_cells(df), total_cells))

\* def uniqueness_score(df): one parameter, and a body that reads the name
\* id_column, which nothing defines.  extra holds the positional arguments
\* passed after df.
uniqueness_score(df, extra) ==
    IF Len(extra) # 0 THEN Raise("TypeError") ELSE Raise("NameError")

VALID_CURRENCIES == {"INR", "USD", "EUR"}

validity_score_currency(df) ==
    LET invalid(r) == r.currency_code \notin VALID_CURRENCIES
    IN  Return(fraction_score(
        Cardinality({i \in Rows(df) : invalid(df[i])}),
        Len(df)))

accuracy_score_amount(df) ==
    LET invalid_amounts(r) ==
            \/ (~r.transaction_amount.nan /\ r.transaction_amount.v <= 0)
            \/ isnull_num(r.transaction_amount)
    IN  Return(fraction_score(
        Cardinality({i \in Rows(df) : invalid_amounts(df[i])}),
        Len(df)))

\* pd.to_datetime of one cell (errors='raise' is the default)
parse_cell(c) ==
    CASE c.form = "text" -> Instant(c.t)
      [] c.form = "null" -> NaT
      [] OTHER -> c

\* pd.to_datetime(df[col]): raises on the first text that is no timestamp
to_datetime_ok(df, col) == \A i \in Rows(df) : df[i][col].form # "garbled"

assign_parsed(df, col) ==
    [i \in Rows(df) |-> [df[i] EXCEPT ![col] = parse_cell(df[i][col])]]

max_delay_days == 7

\* (settlement_date - transaction_timestamp).dt.days: the whole days of the
\* difference, rounded towards minus infinity
delay_days(r) == (r.settlement_date.t - r.transaction_timestamp.t) \div 24

\* late = delay > max_delay_days; a NaT on either side gives a NaN delay,
\* and NaN > 7 is False
late_row(r) ==
    /\ r.settlement_date.form = "instant"
    /\ r.transaction_timestamp.form = "instant"
    /\ delay_days(r) > max_delay_days

\* the table timeliness_score leaves behind: line 41 assigns the first
\* column before line 42 parses the second
timeliness_df(df) ==
    IF ~to_datetime_ok(df, "transaction_timestamp") THEN df
    ELSE LET d1 == assign_parsed(df, "transaction_timestamp")
         IN  IF ~to_datetime_ok(d1, "settlement_date") THEN d1
             ELSE assign_parsed(d1, "settlement_date")

timeliness_score(df) ==
    IF \/ ~to_datetime_ok(df, "transaction_timestamp")
       \/ ~to_datetime_ok(df, "settlement_date")
    THEN Raise("ValueError")
    ELSE LET d == timeliness_df(df)
         IN  Return(fraction_score(
             Cardinality({i \in Rows(d) : late_row(d[i])}),
             Len(d)))

consistency_score(df) ==
    LET inconsistent(r) ==
            r.currency_code = "INR" /\ isnull_obj(r.merchant_id)
    IN  Return(fraction_score(
        Cardinality({i \in Rows(df) : inconsistent(df[i])}),
        Len(df)))

integrity_score_both(t, c, m) ==
    LET invalid(r) == r.customer_id \notin c /\ r.merchant_id \notin m
    IN  Return(fraction_score(
        Cardinality({i \in Rows(t) : invalid(t[i])}),
        Len(t)))

\* cust and merch are the customer_id and merchant_id columns of the two
\* reference tables, as sets of values (isin)
integrity_score(t, c, m) ==
    LET invalid(r) == r.customer_id \notin c \/ r.merchant_id \notin m
    IN  Return(fraction_score(
        Cardinality({i \in Rows(t) : invalid(t[i])}),
        Len(t)))

----------------------------------------------------------------------------
(* Explanation and recommendation resolvers.                               *)

DIMENSIONS ==
    {"Completeness", "Accuracy", "Validity", "Uniqueness", "Timeliness",
     "Consistency", "Integrity"}

explanations ==
    [d \in DIMENSIONS |->
        CASE d = "Completeness" ->
               [low |-> "Most required fields are populated, indicating strong data capture processes.",
                medium |-> "Some critical fields contain missing values, which may affect downstream processing.",
                high |-> "A significant number of required fields are missing, impacting reconciliation and compliance."]
          [] d = "Accuracy" ->
               [low |-> "Transaction values are largely accurate and within expected ranges.",
                medium |-> "Some transaction values appear unrealistic or invalid, affecting reporting reliability.",
                high |-> "Many transaction values are incorrect or invalid, posing financial and operational risks."]
          [] d = "Validity" ->
               [low |-> "Most fields conform to expected formats and domain rules.",
                medium |-> "Several fields violate format or domain constraints, reducing system reliability.",
                high |-> "Widespread format and domain violations prevent reliable data processing."]
          [] d = "Uniqueness" ->
               [low |-> "Records are mostly unique, minimizing duplication risks.",
                medium |-> "Some duplicate records were detected, which may lead to reconciliation errors.",
                high |-> "High duplication levels detected, risking double counting and reporting inaccuracies."]
          [] d = "Timeliness" ->
               [low |-> "Transactions are settled within acceptable timeframes.",
                medium |-> "Settlement delays are observed, impacting real-time visibility.",
                high |-> "Significant delays detected, reducing operational effectiveness and fraud detection capability."]
          [] d = "Consistency" ->
               [low |-> "Related fields show strong alignment across records.",
                medium |-> "Some inconsistencies exist between related fields, causing reporting mismatches.",
                high |-> "Frequent inconsistencies detected, reducing trust in analytical outputs."]
          [] d = "Integrity" ->
               [low |-> "Relationships across datasets are well maintained.",
                medium |-> "Some records reference missing or invalid entities.",
                high |-> "Broken relationships detected, impacting end-to-end data reliability."]]

\* score >= threshold on floats: every comparison with NaN is False
ge(score, hundredths) == ~score.nan /\ score.v >= hundredths

severity_strict(score) ==
    IF ge(score, 90 * 100 + 1) THEN "low"
    ELSE IF ge(score, 75 * 100 + 1) THEN "medium"
    ELSE "high"

severity(score) ==
    IF ge(score, 90 * 100) THEN "low"
    ELSE IF ge(score, 75 * 100) THEN "medium"
    ELSE "high"

\* explanations[dimension][severity]: a KeyError for a name the table lacks
explain_dimension(dimension, score) ==
    IF dimension \notin DOMAIN explanations THEN Raise("KeyError")
    ELSE Return(explanations[dimension][severity(score)])

NO_ACTION == "No immediate action required. Continue monitoring."

recommendations ==
    [d \in DIMENSIONS |->
        CASE d = "Completeness" -> "Enforce mandatory field validation at data ingestion."
          [] d = "Accuracy" -> "Apply value range checks and validation rules at the source."
          [] d = "Validity" -> "Standardize formats and apply domain-level validations."
          [] d = "Uniqueness" -> "Implement unique constraints and deduplication logic."
          [] d = "Timeliness" -> "Optimize settlement workflows and monitor delays."
          [] d = "Consistency" -> "Introduce cross-field validation rules."
          [] d = "Integrity" -> "Enforce referential integrity across related datasets."]

generate_recommendation_90(dimension, score) ==
    IF ge(score, 90 * 100) THEN Return(NO_ACTION)
    ELSE IF dimension \notin DOMAIN recommendations THEN Raise("KeyError")
    ELSE Return(recommendations[dimension])

\* the score test comes first: a score >= 85 returns before the table is read
generate_recommendation(dimension, score) ==
    IF ge(score, 85 * 100) THEN Return(NO_ACTION)
    ELSE IF dimension \notin DOMAIN recommendations THEN Raise("KeyError")
    ELSE Return(recommendations[dimension])

----------------------------------------------------------------------------
(* Pipeline.                                                               *)

RECURSIVE sum_values(_, _)
sum_values(s, keys) ==
    IF keys = {} THEN 0
    ELSE LET k == CHOOSE x \in keys : TRUE
         IN  s[k].v + sum_values(s, keys \ {k})

overall_dqs_truncated(s) ==
    IF \E k \in DOMAIN s : s[k].nan THEN NaN
    ELSE Num(sum_values(s, DOMAIN s) \div Cardinality(DOMAIN s))

\* round(sum(scores.values()) / len(scores), 2)
overall_dqs(s) ==
    IF \E k \in DOMAIN s : s[k].nan THEN NaN
    ELSE Num(round2(sum_values(s, DOMAIN s), Cardinality(DOMAIN s)))

\* lines 155-172 of analyze_dataset: the report built from the scores dict
build_report(s) ==
    Return([overall_dqs |-> overall_dqs(s),
            scores |-> s,
            explanations |->
                [k \in DOMAIN s |-> explain_dimension(k, s[k]).value],
            recommendations |->
                [k \in DOMAIN s |-> generate_recommendation(k, s[k]).value]])

\* the scores dict literal is evaluated entry by entry, in source order; the
\* first call that raises ends analyze_dataset with its exception
analyze_dataset(t, c, m) ==
    LET completeness == completeness_score(t)
        accuracy == accuracy_score_amount(t)
        validity == validity_score_currency(t)
        uniqueness == uniqueness_score(t, <<"transaction_id">>)
        timeliness == timeliness_score(t)
        consistency == consistency_score(timeliness_df(t))
        integrity == integrity_score(timeliness_df(t), c, m)
    IN  IF uniqueness.kind = "raise" THEN uniqueness
        ELSE IF timeliness.kind = "raise" THEN timeliness
        ELSE build_report(
               [k \in DIMENSIONS |->
                  CASE k = "Completeness" -> completeness.value
                    [] k = "Accuracy" -> accuracy.value
                    [] k = "Validity" -> validity.value
                    [] k = "Uniqueness" -> uniqueness.value
                    [] k = "Timeliness" -> timeliness.value
                    [] k = "Consistency" -> consistency.value
                    [] k = "Integrity" -> integrity.value])

\* the transaction table analyze_dataset leaves behind: timeliness_score is
\* the only callee that assigns to it, and runs only if uniqueness_score
\* returned
analyze_dataset_df(t) ==
    IF uniqueness_score(t, <<"transaction_id">>).kind = "raise" THEN t
    ELSE timeliness_df(t)

----------------------------------------------------------------------------
(* Inputs.                                                                 *)

\* a transaction that breaks none of the rules
BaseRow ==
    [transaction_id |-> "T1", customer_id |-> "C1", merchant_id |-> "M1",
     currency_code |-> "INR", transaction_amount |-> Num(100),
     transaction_timestamp |-> Text(0), settlement_date |-> Text(48)]

TransactionIds == {"T1", "T2"}
CustomerIds == {"C1", "C9", NULL}
MerchantIds == {"M1", NULL}
CurrencyCodes == {"INR", "GBP"}
Amounts == {Num(100), Num(0), NaN}
Timestamps == {Text(0), NullCell, Garbled}
\* settled after 2 days, 7 days, 7 days 12 hours, 8 days; missing; no date
SettlementDates ==
    {Text(48), Text(168), Text(180), Text(192), NullCell, Garbled}

AllRows ==
    [transaction_id : TransactionIds, customer_id : CustomerIds,
     merchant_id : MerchantIds, currency_code : CurrencyCodes,
     transaction_amount : Amounts, transaction_timestamp : Timestamps,
     settlement_date : SettlementDates]

\* the rows that differ from BaseRow in at most one column
TxnRows ==
    {r \in AllRows : Cardinality({c \in Columns : r[c] # BaseRow[c]}) <= 1}

\* the rows that differ from BaseRow in the two reference columns only
RefRows ==
    {r \in AllRows :
        \A c \in Columns \ {"customer_id", "merchant_id"} : r[c] = BaseRow[c]}

Tables(rows, n) == UNION {[1..k -> rows] : k \in 0..n}

\* the customer_id column of the customer table, as a set of values
CustomerTables == {{"C1"}, {"C1", "C9"}}
\* the merchant_id column of the merchant table
MerchantTables == {{"M1"}}

\* the scores of tables of at most MaxScoreDen rows
ScoreGrid ==
    UNION {{fraction_score(k, n) : k \in 0..n} : n \in 1..MaxScoreDen}

\* every 2-decimal score of [0, 100], and NaN
ScoreInputs == {Num(k) : k \in 0..(100 * 100)} \cup {NaN}

DimensionNames == DIMENSIONS \cup {"completeness", "Velocity"}

NoCall == [fn |-> "none"]

----------------------------------------------------------------------------
(* Operations: one action per function of the module.  ret records the     *)
(* last call: the function, its arguments and its outcome.  reports holds  *)
(* the outcomes of the analyze_dataset calls made in succession.           *)

Called(fn, out) == [fn |-> fn, df |-> txn_df, out |-> out]

Call_completeness_score ==
    /\ ret' = Called("completeness_score", completeness_score(txn_df))
    /\ reports' = <<>>
    /\ UNCHANGED <<txn_df, cust_df, merch_df, arg_dimension, arg_score, scores>>

Call_uniqueness_score ==
    \E extra \in {<<>>, <<"transaction_id">>} :
        /\ ret' = Called("uniqueness_score", uniqueness_score(txn_df, extra))
        /\ reports' = <<>>
        /\ UNCHANGED <<txn_df, cust_df, merch_df, arg_dimension, arg_score, scores>>

Call_validity_score_currency ==
    /\ ret' = Called("validity_score_currency", validity_score_currency(txn_df))
    /\ reports' = <<>>
    /\ UNCHANGED <<txn_df, cust_df, merch_df, arg_dimension, arg_score, scores>>

Call_accuracy_score_amount ==
    /\ ret' = Called("accuracy_score_amount", accuracy_score_amount(txn_df))
    /\ reports' = <<>>
    /\ UNCHANGED <<txn_df, cust_df, merch_df, arg_dimension, arg_score, scores>>

Call_timeliness_score ==
    /\ ret' = Called("timeliness_score", timeliness_score(txn_df))
    /\ txn_df' = timeliness_df(txn_df)
    /\ reports' = <<>>
    /\ UNCHANGED <<cust_df, merch_df, arg_dimension, arg_score, scores>>

Call_consistency_score ==
    /\ ret' = Called("consistency_score", consistency_score(txn_df))
    /\ reports' = <<>>
    /\ UNCHANGED <<txn_df, cust_df, merch_df, arg_dimension, arg_score, scores>>

Call_integrity_score ==
    /\ ret' = Called("integrity_score",
                     integrity_score(txn_df, cust_df, merch_df))
    /\ reports' = <<>>
    /\ UNCHANGED <<txn_df, cust_df, merch_df, arg_dimension, arg_score, scores>>

Call_analyze_dataset ==
    /\ Len(reports) < MaxCalls
    /\ LET out == analyze_dataset(txn_df, cust_df, merch_df)
       IN  /\ ret' = Called("analyze_dataset", out)
           /\ reports' = Append(reports, out)
    /\ txn_df' = analyze_dataset_df(txn_df)
    /\ UNCHANGED <<cust_df, merch_df, arg_dimension, arg_score, scores>>

Call_explain_dimension ==
    /\ ret' = [fn |-> "explain_dimension", dimension |-> arg_dimension,
               score |-> arg_score,
               out |-> explain_dimension(arg_dimension, arg_score)]
    /\ UNCHANGED <<txn_df, cust_df, merch_df, arg_dimension, arg_score, scores, reports>>

Call_generate_recommendation ==
    /\ ret' = [fn |-> "generate_recommendation", dimension |-> arg_dimension,
               score |-> arg_score,
               out |-> generate_recommendation(arg_dimension, arg_score)]
    /\ UNCHANGED <<txn_df, cust_df, merch_df, arg_dimension, arg_score, scores, reports>>

\* the tail of analyze_dataset, from a scores dict to the report
Call_build_report ==
    /\ ret' = [fn |-> "build_report", out |-> build_report(scores)]
    /\ UNCHANGED <<txn_df, cust_df, merch_df, arg_dimension, arg_score, scores, reports>>

----------------------------------------------------------------------------
(* Specifications.                                                         *)

\* the metric functions and the pipeline over a transaction table
Init ==
    /\ txn_df \in Tables(TxnRows, MaxRows)
    /\ cust_df \in CustomerTables
    /\ merch_df \in MerchantTables
    /\ arg_dimension = "Completeness"
    /\ arg_score = NaN
    /\ scores = <<>>
    /\ ret = NoCall
    /\ reports = <<>>

Next ==
    \/ Call_completeness_score
    \/ Call_uniqueness_score
    \/ Call_validity_score_currency
    \/ Call_accuracy_score_amount
    \/ Call_timeliness_score
    \/ Call_consistency_score
    \/ Call_integrity_score
    \/ Call_analyze_dataset

Spec == Init /\ [][Next]_vars

\* integrity_score over tables that vary in the two reference columns
InitIntegrity ==
    /\ txn_df \in Tables(RefRows, MaxRefRows)
    /\ cust_df \in CustomerTables
    /\ merch_df \in MerchantTables
    /\ arg_dimension = "Completeness"
    /\ arg_score = NaN
    /\ scores = <<>>
    /\ ret = NoCall
    /\ reports = <<>>

NextIntegrity == Call_integrity_score

SpecIntegrity == InitIntegrity /\ [][NextIntegrity]_vars

\* the two resolvers, applied to a dimension name and a score
InitResolver ==
    /\ txn_df = <<>>
    /\ cust_df = {}
    /\ merch_df = {}
    /\ arg_dimension \in DimensionNames
    /\ arg_score \in ScoreInputs
    /\ scores = <<>>
    /\ ret = NoCall
    /\ reports = <<>>

NextResolver ==
    \/ Call_explain_dimension
    \/ Call_generate_recommendation

SpecResolver == InitResolver /\ [][NextResolver]_vars

\* the report assembly over every combination of seven scores
InitReport ==
    /\ txn_df = <<>>
    /\ cust_df = {}
    /\ merch_df = {}
    /\ arg_dimension = "Completeness"
    /\ arg_score = NaN
    /\ scores \in [DIMENSIONS -> ScoreGrid]
    /\ ret = NoCall
    /\ reports = <<>>

NextReport == Call_build_report

SpecReport == InitReport /\ [][NextReport]_vars

----------------------------------------------------------------------------
(* Claims.                                                                 *)

Hundred == Num(100 * 100)

\* the duration settlement_date - transaction_timestamp of a raw row, hours
duration(r) == r.settlement_date.t - r.transaction_timestamp.t

\* both time cells of a raw row hold text that parses
parseable(r) ==
    r.transaction_timestamp.form = "text" /\ r.settlement_date.form = "text"

\* no row of the raw table df breaks any of the seven rules
clean(df, c, m) ==
    /\ \A i \in Rows(df) :
        /\ missing_cells_row(df[i]) = 0
        /\ parseable(df[i])
        /\ df[i].currency_code \in {"INR", "USD", "EUR"}
        /\ df[i].transaction_amount.v > 0
        /\ duration(df[i]) <= 7 * 24
        /\ df[i].customer_id \in c
        /\ df[i].merchant_id \in m
    /\ \A i, j \in Rows(df) :
        df[i].transaction_id = df[j].transaction_id => i = j

\* C1: for every non-empty transaction table in which no row violates any
\* of the seven rules, analyze_dataset returns a report whose seven scores
\* and overall_dqs are 100.0, whose explanations are the "low" sentences and
\* whose recommendations are the no-action sentence.
C1_CleanTableReport ==
    (/\ ret.fn = "analyze_dataset"
     /\ Len(ret.df) > 0
     /\ clean(ret.df, cust_df, merch_df))
    => /\ ret.out.kind = "return"
       /\ ret.out.value.overall_dqs = Hundred
       /\ \A d \in DIMENSIONS :
            /\ ret.out.value.scores[d] = Hundred
            /\ ret.out.value.explanations[d] = explanations[d].low
            /\ ret.out.value.recommendations[d] = NO_ACTION

\* C2: in every report, overall_dqs is the arithmetic mean of the seven
\* scores of that report rounded to 2 decimals: the hundredth nearest to
\* sum / 7, so that 7 * overall_dqs is within 3.5 hundredths of the sum.
C2_OverallIsRoundedMean ==
    ret.fn = "build_report" =>
        LET r == ret.out.value
            total == sum_values(r.scores, DIMENSIONS)
            diff == 7 * r.overall_dqs.v - total
        IN  /\ ret.out.kind = "return"
            /\ ~r.overall_dqs.nan
            /\ 2 * diff <= 7
            /\ 2 * diff >= -7

\* a report whose mean is not a whole number of hundredths
C2_Witness ==
    /\ ret.fn = "build_report"
    /\ sum_values(ret.out.value.scores, DIMENSIONS) % 7 = 5
    /\ ret.out.value.overall_dqs.v * 7
         = sum_values(ret.out.value.scores, DIMENSIONS) + 2

\* C3: for a recognized dimension and a score in [0, 100], explain_dimension
\* returns the "low" sentence exactly when score >= 90, the "medium" sentence
\* exactly when 75 <= score < 90, the "high" sentence exactly when score < 75.
C3_SeverityBands ==
    (/\ ret.fn = "explain_dimension"
     /\ ret.dimension \in DIMENSIONS
     /\ ~ret.score.nan)
    => /\ ret.out.kind = "return"
       /\ ret.out.value = explanations[ret.dimension].low
            <=> ret.score.v >= 9000
       /\ ret.out.value = explanations[ret.dimension].medium
            <=> (ret.score.v >= 7500 /\ ret.score.v < 9000)
       /\ ret.out.value = explanations[ret.dimension].high
            <=> ret.score.v < 7500

\* the boundary score 75.00 resolved to a "medium" sentence
C3_Witness ==
    /\ ret.fn = "explain_dimension"
    /\ ret.dimension = "Integrity"
    /\ ret.score = Num(7500)
    /\ ret.out = Return("Some records reference missing or invalid entities.")

\* C4: for a recognized dimension, generate_recommendation returns the
\* no-action sentence exactly when score >= 85 and otherwise the dimension's
\* remediation sentence; a score in [85, 90) is "medium" for the explanation
\* and still receives the no-action sentence.
C4_RecommendationThreshold ==
    (/\ ret.fn = "generate_recommendation"
     /\ ret.dimension \in DIMENSIONS
     /\ ~ret.score.nan)
    => /\ ret.out.kind = "return"
       /\ ret.out.value = NO_ACTION <=> ret.score.v >= 8500
       /\ ret.score.v < 8500 => ret.out.value = recommendations[ret.dimension]
       /\ (ret.score.v >= 8500 /\ ret.score.v < 9000) =>
            explain_dimension(ret.dimension, ret.score)
                = Return(explanations[ret.dimension].medium)

\* the score 87.00: "medium" severity, no action recommended
C4_Witness ==
    /\ ret.fn = "generate_recommendation"
    /\ ret.dimension = "Validity"
    /\ ret.score = Num(8700)
    /\ ret.out = Return(NO_ACTION)
    /\ explain_dimension("Validity", ret.score).value
         = "Several fields violate format or domain constraints, reducing system reliability."

\* C5: on a transaction table of zero rows, completeness_score,
\* uniqueness_score and analyze_dataset end in an error: no NaN or zero
\* score and no report is returned.
C5_EmptyTableRaises ==
    (/\ ret.fn \in {"completeness_score", "uniqueness_score", "analyze_dataset"}
     /\ Len(ret.df) = 0)
    => ret.out.kind = "raise"

\* the rows of a raw table that C6 counts on time: both cells parse and the
\* whole days of the difference do not exceed 7
on_time_parsed(r) == parseable(r) /\ duration(r) \div 24 <= 7

\* C6: timeliness_score counts every row whose transaction_timestamp or
\* settlement_date is null or does not parse as late: the call does not
\* raise, and the score is 100 times the fraction of the remaining rows
\* that are on time.
C6_UnparseableCountedLate ==
    (ret.fn = "timeliness_score" /\ Len(ret.df) > 0)
    => /\ ret.out.kind = "return"
       /\ ret.out.value
            = fraction_score(
                Len(ret.df) - Cardinality({i \in Rows(ret.df) : on_time_parsed(ret.df[i])}),
                             Len(ret.df))

\* C7: for a dimension name that is not one of the seven, explain_dimension
\* and generate_recommendation end in an error for every score, and never
\* return a sentence.
C7_UnknownDimensionRaises ==
    (/\ ret.fn \in {"explain_dimension", "generate_recommendation"}
     /\ ret.dimension \notin DIMENSIONS)
    => ret.out.kind = "raise"

\* C8: two analyze_dataset calls in succession on the same tables yield two
\* identical reports.
C8_SecondCallSameReport ==
    Len(reports) >= 2 =>
        /\ reports[1].kind = "return"
        /\ reports[2].kind = "return"
        /\ reports[1] = reports[2]

\* a row is on time exactly when its duration is at most 7 days
on_time_duration(r) == duration(r) <= 7 * 24

\* C9: on a table whose time cells all parse, timeliness_score returns 100
\* times the fraction of rows whose settlement_date minus
\* transaction_timestamp is at most 7 days as a duration; 7 days and 12
\* hours is late.
C9_LateBeyondSevenDays ==
    (/\ ret.fn = "timeliness_score"
     /\ Len(ret.df) > 0
     /\ \A i \in Rows(ret.df) : parseable(ret.df[i]))
    => ret.out
         = Return(fraction_score(
             Len(ret.df) - Cardinality({i \in Rows(ret.df) : on_time_duration(ret.df[i])}),
                                 Len(ret.df)))

\* the table df with the customer_id of row i replaced by c
with_customer(df, i, c) == [df EXCEPT ![i].customer_id = c]

\* the drop of integrity_score, in hundredths, when row i of the table of
\* the last call gets the customer_id c
integrity_drop(i, c) ==
    ret.out.value.v
      - integrity_score(with_customer(ret.df, i, c), cust_df, merch_df).value.v

\* the rows of the last call's table that reference a customer and a
\* merchant of the reference tables
valid_rows ==
    {i \in Rows(ret.df) :
        ret.df[i].customer_id \in cust_df /\ ret.df[i].merchant_id \in merch_df}

\* C10 as claimed: changing one valid row's customer_id to a value absent
\* from the customer set lowers integrity_score by exactly 100/N.
C10_DropExactly ==
    ret.fn = "integrity_score" =>
        \A i \in valid_rows : \A c \in CustomerIds \ cust_df :
            integrity_drop(i, c) * Len(ret.df) = 100 * 100

\* C10 as amended: the change lowers integrity_score by 100/N up to the
\* 2-decimal rounding of the two scores: the drop differs from 100/N by at
\* most 0.01, and is exactly 100/N when 100/N has at most two decimals.
C10_DropWithinRounding ==
    ret.fn = "integrity_score" =>
        \A i \in valid_rows : \A c \in CustomerIds \ cust_df :
            LET n == Len(ret.df)
                gap == integrity_drop(i, c) * n - 100 * 100
            IN  /\ gap <= n
                /\ gap >= -n
                /\ (100 * 100) % n = 0 => gap = 0

\* three rows, two valid: 66.67 drops to 33.33, a drop of 33.34
C10_Witness ==
    /\ ret.fn = "integrity_score"
    /\ Len(ret.df) = 3
    /\ ret.out.value = Num(6667)
    /\ \E i \in valid_rows : \E c \in CustomerIds \ cust_df :
         integrity_drop(i, c) = 3334

====
